---- MODULE Spec2Model ----
(***************************************************************************)
(* The hfrt program (src/hfrt/src/lib.rs): per-trader rolling trade        *)
(* volume, volume-tiered rebates, staking with a time-dependent unstake    *)
(* penalty, governance parameters and DAO proposals on the fee discount.   *)
(*                                                                         *)
(* Every instruction handler is an operator from the accounts it is given  *)
(* to its return value and the accounts as the handler leaves them in      *)
(* memory; the instruction actions persist those accounts only when the    *)
(* handler returns Ok (operator Commit).                                   *)
(***************************************************************************)
EXTENDS Integers, Sequences, FiniteSets, TLC

(***************************************************************************)
(* Bounds of the model.                                                    *)
(***************************************************************************)
\* Largest value of the unsigned word standing for u64.  TLC's integers are
\* 32-bit, so the 64-bit amounts are modelled by a 30-bit word; every
\* threshold of the program (1_000_000 ... 100_000_000) lies below it.
U64_MAX == 1073741823
\* Instructions issued in one behaviour of Spec.
MaxOps == 3
\* Instructions issued in one behaviour of TradeSpec.
MaxTradeOps == 4
\* Instructions issued in one behaviour of StakeSpec.
MaxStakeOps == 4
\* Instructions issued in one behaviour of CustodySpec.
MaxCustodyOps == 5
\* Instructions issued in one behaviour of RateSpec.
MaxRateOps == 4
\* Accepted trades remembered per trader (history of the volume window).
MaxTrades == 3
\* Votes cast on one proposal.
MaxVotes == 11
\* Instructions issued in one behaviour of GovSpec.
MaxGovOps == 14
\* Instructions issued in one behaviour of ReexecSpec.
MaxReexecOps == 8
\* Tokens each trader's token account holds initially.
InitBalance == 400000000

(***************************************************************************)
(* Inputs.                                                                 *)
(***************************************************************************)
Traders == {"t1", "t2"}
Principals == {"admin", "mallory"}
ProposalIds == {1, 2}
\* u8 arguments (rebate rate, fee discounts).
U8Vals == {0, 10, 50}
\* Clock readings in seconds, an increasing chain whose differences cover
\* the 5 s, 10 s and 24 h limits of record_trade.
TradeTimes == {100000, 100003, 100004, 100005, 100010, 100011, 186410, 272809}
\* The clock readings of Spec.
Times == {100000, 100004, 100011, 186410}
\* Trade amounts around the wash-trade threshold and the rebate tiers.
TradeAmounts == {500, 1000000, 2000000, 10000000, 50000000, 75000000,
                 100000000, U64_MAX}
\* The trade amounts of Spec.
Amounts == {500, 2000000, U64_MAX}
\* Fee discounts (u8) passed to initialize and create_dao_proposal in GovSpec.
FeeDiscounts == {0, 50, 100, 200}
\* Clock readings of StakeSpec: 5, 10 and 20 days after the first, and the
\* seconds on either side of the 7-day and 14-day limits.
StakeTimes == {100000, 532000, 704799, 704800, 964000, 1309599, 1309600, 1828000}
\* Stake and unstake amounts.
StakeAmounts == {0, 1000, 200000000}
\* Stake and unstake amounts of CustodySpec.
CustodyAmounts == {1000, 200000000}

NoTrader == [owner |-> "none", rolling_volume |-> 0, last_update |-> 0,
             staked_amount |-> 0, stake_start_time |-> 0]

(***************************************************************************)
(* Checked and unchecked integer arithmetic of the unsigned word.          *)
(***************************************************************************)
\* Option::None of the checked operations.
None == -1

checked_add(a, b) == IF a > U64_MAX - b THEN None ELSE a + b

checked_sub(a, b) == IF a < b THEN None ELSE a - b

\* a * b > U64_MAX decided without forming the product.
MulOverflows(a, b) == b # 0 /\ a > U64_MAX \div b

checked_mul(a, b) == IF MulOverflows(a, b) THEN None ELSE a * b

\* (a + b) modulo the word size, for a, b in 0..U64_MAX.
WrapAdd(a, b) == IF a > U64_MAX - b THEN a - (U64_MAX - b) - 1 ELSE a + b

\* (a * b) modulo the word size, by repeated addition (b is a small factor).
RECURSIVE WrapMul(_, _)
WrapMul(a, b) == IF b = 0 THEN 0 ELSE WrapAdd(WrapMul(a, b - 1), a)

(***************************************************************************)
(* Pure helpers of the program.                                            *)
(***************************************************************************)
\* The tiers with exclusive lower bounds.
calculate_rebate_multiplier_strict(trade_volume) ==
    IF trade_volume > 100000000 THEN 5
    ELSE IF trade_volume > 50000000 THEN 3
    ELSE IF trade_volume > 10000000 THEN 2
    ELSE 1

calculate_rebate_multiplier(trade_volume) ==
    IF trade_volume >= 100000000 THEN 5
    ELSE IF trade_volume >= 50000000 THEN 3
    ELSE IF trade_volume >= 10000000 THEN 2
    ELSE 1

\* The frequency test with an inclusive limit.
detect_frequent_trades_inclusive(last_trade_time, current_time) ==
    LET min_time_between_trades == 5
    IN  (current_time - last_trade_time) <= min_time_between_trades

detect_frequent_trades(last_trade_time, current_time) ==
    LET min_time_between_trades == 5
    IN  (current_time - last_trade_time) < min_time_between_trades

\* The wash-trade test with an inclusive amount threshold.
is_wash_trade_inclusive(last_trade_time, current_time, trade_amount) ==
    LET min_time_between_trades == 10
    IN  trade_amount >= 1000000
        /\ (current_time - last_trade_time) < min_time_between_trades

is_wash_trade(last_trade_time, current_time, trade_amount) ==
    LET min_time_between_trades == 10
    IN  trade_amount > 1000000
        /\ (current_time - last_trade_time) < min_time_between_trades

\* `amount * penalty_percentage / 100` is plain (unchecked) u64 arithmetic:
\* when the product leaves the word, a build with overflow checks panics
\* and a build without them wraps.  panic and val describe both outcomes.
penalty_percentage(stake_start_time, current_time) ==
    LET duration == current_time - stake_start_time
    IN  IF duration < 7 * 24 * 3600 THEN 10
        ELSE IF duration < 14 * 24 * 3600 THEN 5
        ELSE 2

calculate_dynamic_unstake_penalty(stake_start_time, current_time, amount, checks) ==
    LET pct == penalty_percentage(stake_start_time, current_time)
    IN  IF MulOverflows(amount, pct)
        THEN [panic |-> checks, val |-> WrapMul(amount, pct) \div 100]
        ELSE [panic |-> FALSE, val |-> (amount * pct) \div 100]

(***************************************************************************)
(* State.                                                                  *)
(***************************************************************************)
VARIABLES
    now,             \* Clock::get()?.unix_timestamp
    traders,         \* Trader accounts, by owner
    token,           \* trader_token_account.amount, by owner
    staking_vault,   \* staking_vault token amount
    mint_supply,     \* hfrt_mint.supply
    governance,      \* Governance account
    global_state,    \* GlobalState account
    proposals,       \* DAOProposal accounts, by proposal id
    last,            \* the last instruction: arguments, result, accounts before it
    hist,            \* per trader: accepted trades, and the current volume window
    executed,        \* proposals executed successfully so far
    ops              \* instructions issued so far

vars == <<now, traders, token, staking_vault, mint_supply,
          governance, global_state, proposals, last, hist, executed, ops>>

\* The persisted accounts.
State ==
    [traders |-> traders, token |-> token, staking_vault |-> staking_vault,
     mint_supply |-> mint_supply, governance |-> governance,
     global_state |-> global_state, proposals |-> proposals]

\* The accounts one instruction on trader t and proposal p is handed.
Accounts(t, p) ==
    [trader |-> traders[t], trader_token_account |-> token[t],
     staking_vault |-> staking_vault, hfrt_mint |-> mint_supply,
     governance |-> governance, global_state |-> global_state,
     dao_proposal |-> proposals[p]]

\* A handler's return: the Result, the accounts as the handler leaves them
\* in memory, and the amount it computed (rebate, amount after penalty).
Ret(res, st, out) == [res |-> res, st |-> st, out |-> out]

(***************************************************************************)
(* Token program calls (anchor_spl::token).  A call fails when the token   *)
(* program rejects it (cpi_ok = FALSE: wrong authority, frozen account,    *)
(* ...), when the source lacks the funds, or when the supply would         *)
(* overflow.  fail = TRUE leaves the balances untouched.                   *)
(***************************************************************************)
mint_to(st, to, amount, cpi_ok) ==
    IF ~cpi_ok \/ checked_add(st.hfrt_mint, amount) = None
    THEN [fail |-> TRUE, st |-> st]
    ELSE [fail |-> FALSE,
          st |-> [st EXCEPT !.hfrt_mint = @ + amount, ![to] = @ + amount]]

transfer(st, from, to, amount, cpi_ok) ==
    IF ~cpi_ok \/ st[from] < amount
    THEN [fail |-> TRUE, st |-> st]
    ELSE [fail |-> FALSE,
          st |-> [st EXCEPT ![from] = @ - amount, ![to] = @ + amount]]

(***************************************************************************)
(* Instruction handlers.                                                   *)
(***************************************************************************)
initialize(st, authority, fee_discount) ==
    Ret("Ok",
        [st EXCEPT !.global_state = [initialized |-> TRUE,
                                     authority |-> authority,
                                     fee_discount |-> fee_discount]],
        0)

initialize_governance(st, authority, rebate_rate, max_fee_discount) ==
    Ret("Ok",
        [st EXCEPT !.governance = [initialized |-> TRUE,
                                   authority |-> authority,
                                   rebate_rate |-> rebate_rate,
                                   max_fee_discount |-> max_fee_discount]],
        0)

\* has_one = authority is checked before the handler body runs.
update_rebate_rate(st, signer, new_rate) ==
    IF st.governance.authority # signer THEN Ret("ConstraintHasOne", st, 0)
    ELSE IF ~(new_rate <= st.governance.max_fee_discount)
    THEN Ret("InvalidRebateRate", st, 0)
    ELSE Ret("Ok", [st EXCEPT !.governance.rebate_rate = new_rate], 0)

\* The accumulation of the rolling volume (lines 68-71); None is the
\* Overflow error.
accumulate_wrapping(rolling_volume, trade_amount) ==
    WrapAdd(rolling_volume, trade_amount)

accumulate(rolling_volume, trade_amount) ==
    checked_add(rolling_volume, trade_amount)

\* The test of the 24-hour reset (line 65).
window_elapsed_strict(last_update, current_time) ==
    current_time - last_update > 24 * 3600

window_elapsed(last_update, current_time) ==
    current_time - last_update >= 24 * 3600

\* record_trade with last_update written in the reset branch only.
record_trade_stale(st, trade_amount, current_time) ==
    LET trader == st.trader
    IN  IF is_wash_trade(trader.last_update, current_time, trade_amount)
        THEN Ret("WashTrade", st, 0)
        ELSE IF detect_frequent_trades(trader.last_update, current_time)
        THEN Ret("FrequentTrades", st, 0)
        ELSE IF window_elapsed(trader.last_update, current_time)
        THEN Ret("Ok",
                 [st EXCEPT !.trader.rolling_volume = trade_amount,
                            !.trader.last_update = current_time],
                 trade_amount)
        ELSE LET sum == accumulate(trader.rolling_volume, trade_amount)
             IN  IF sum = None THEN Ret("Overflow", st, 0)
                 ELSE Ret("Ok", [st EXCEPT !.trader.rolling_volume = sum], sum)

record_trade(st, trade_amount, current_time) ==
    LET trader == st.trader
    IN  IF is_wash_trade(trader.last_update, current_time, trade_amount)
        THEN Ret("WashTrade", st, 0)
        ELSE IF detect_frequent_trades(trader.last_update, current_time)
        THEN Ret("FrequentTrades", st, 0)
        ELSE IF window_elapsed(trader.last_update, current_time)
        THEN Ret("Ok",
                 [st EXCEPT !.trader.rolling_volume = trade_amount,
                            !.trader.last_update = current_time],
                 trade_amount)
        ELSE LET sum == accumulate(trader.rolling_volume, trade_amount)
             IN  IF sum = None THEN Ret("Overflow", st, 0)
                 ELSE Ret("Ok",
                          [st EXCEPT !.trader.rolling_volume = sum,
                                     !.trader.last_update = current_time],
                          sum)

\* The rebate computed without clearing rolling_volume.
RebateBlockKeep(st) ==
    LET rolling_volume == st.trader.rolling_volume
        product == checked_mul(rolling_volume, st.governance.rebate_rate)
        base_rebate == product \div 1000
        multiplier == calculate_rebate_multiplier(rolling_volume)
        total_rebate == checked_mul(base_rebate, multiplier)
    IN  IF product = None THEN [amount |-> None, st |-> st]
        ELSE IF total_rebate = None THEN [amount |-> None, st |-> st]
        ELSE [amount |-> total_rebate, st |-> st]

\* The block of claim_rebate (lines 86-99): the rebate, and rolling_volume
\* zeroed in memory.  amount = None when a checked step overflows.
RebateBlock(st) ==
    LET rolling_volume == st.trader.rolling_volume
        product == checked_mul(rolling_volume, st.governance.rebate_rate)
        base_rebate == product \div 1000
        multiplier == calculate_rebate_multiplier(rolling_volume)
        total_rebate == checked_mul(base_rebate, multiplier)
    IN  IF product = None THEN [amount |-> None, st |-> st]
        ELSE IF total_rebate = None THEN [amount |-> None, st |-> st]
        ELSE [amount |-> total_rebate,
              st |-> [st EXCEPT !.trader.rolling_volume = 0]]

\* claim_rebate clearing last_update along with rolling_volume.
claim_rebate_touch(st, cpi_ok) ==
    LET b == RebateBlock(st)
        m == mint_to(b.st, "trader_token_account", b.amount, cpi_ok)
    IN  IF b.amount = None THEN Ret("Overflow", b.st, 0)
        ELSE IF m.fail THEN Ret("TokenError", b.st, 0)
        ELSE Ret("Ok", [m.st EXCEPT !.trader.last_update = 0], b.amount)

claim_rebate(st, cpi_ok) ==
    LET b == RebateBlock(st)
        m == mint_to(b.st, "trader_token_account", b.amount, cpi_ok)
    IN  IF b.amount = None THEN Ret("Overflow", b.st, 0)
        ELSE IF m.fail THEN Ret("TokenError", b.st, 0)
        ELSE Ret("Ok", m.st, b.amount)

\* stake_tokens restarting the staking clock on every stake.
stake_tokens_restart(st, amount, current_time, cpi_ok) ==
    LET x == transfer(st, "trader_token_account", "staking_vault", amount, cpi_ok)
        staked == checked_add(x.st.trader.staked_amount, amount)
    IN  IF x.fail THEN Ret("TokenError", st, 0)
        ELSE IF staked = None THEN Ret("Overflow", x.st, 0)
        ELSE Ret("Ok",
                 [x.st EXCEPT !.trader.staked_amount = staked,
                              !.trader.stake_start_time = current_time],
                 amount)

stake_tokens(st, amount, current_time, cpi_ok) ==
    LET x == transfer(st, "trader_token_account", "staking_vault", amount, cpi_ok)
        staked == checked_add(x.st.trader.staked_amount, amount)
    IN  IF x.fail THEN Ret("TokenError", st, 0)
        ELSE IF staked = None THEN Ret("Overflow", x.st, 0)
        ELSE Ret("Ok",
                 [x.st EXCEPT !.trader.staked_amount = staked,
                              !.trader.stake_start_time =
                                  IF @ = 0 THEN current_time ELSE @],
                 amount)

\* unstake_tokens clearing the staking clock on every unstake.
unstake_tokens_reset(st, amount, current_time, cpi_ok, checks) ==
    LET trader == st.trader
        penalty == calculate_dynamic_unstake_penalty(
                       trader.stake_start_time, current_time, amount, checks)
        amount_after_penalty == checked_sub(amount, penalty.val)
        staked == checked_sub(trader.staked_amount, amount)
        st1 == [st EXCEPT !.trader.staked_amount = staked,
                          !.trader.stake_start_time = 0]
        x == transfer(st1, "staking_vault", "trader_token_account",
                      amount_after_penalty, cpi_ok)
    IN  IF ~(trader.staked_amount >= amount) THEN Ret("InsufficientStake", st, 0)
        ELSE IF penalty.panic THEN Ret("Panic", st, 0)
        ELSE IF amount_after_penalty = None THEN Ret("Overflow", st, 0)
        ELSE IF staked = None THEN Ret("Overflow", st, 0)
        ELSE IF x.fail THEN Ret("TokenError", st1, 0)
        ELSE Ret("Ok", x.st, amount_after_penalty)

unstake_tokens(st, amount, current_time, cpi_ok, checks) ==
    LET trader == st.trader
        penalty == calculate_dynamic_unstake_penalty(
                       trader.stake_start_time, current_time, amount, checks)
        amount_after_penalty == checked_sub(amount, penalty.val)
        staked == checked_sub(trader.staked_amount, amount)
        st1 == [st EXCEPT !.trader.staked_amount = staked,
                          !.trader.stake_start_time = IF staked = 0 THEN 0 ELSE @]
        x == transfer(st1, "staking_vault", "trader_token_account",
                      amount_after_penalty, cpi_ok)
    IN  IF ~(trader.staked_amount >= amount) THEN Ret("InsufficientStake", st, 0)
        ELSE IF penalty.panic THEN Ret("Panic", st, 0)
        ELSE IF amount_after_penalty = None THEN Ret("Overflow", st, 0)
        ELSE IF staked = None THEN Ret("Overflow", st, 0)
        ELSE IF x.fail THEN Ret("TokenError", st1, 0)
        ELSE Ret("Ok", x.st, amount_after_penalty)

\* auto_compound's block without the volume multiplier.
CompoundRebateBlockFlat(st) ==
    LET trader == st.trader
        product == checked_mul(trader.rolling_volume, st.governance.rebate_rate)
        base_rebate == product \div 1000
    IN  IF product = None THEN [amount |-> None, st |-> st]
        ELSE [amount |-> base_rebate,
              st |-> [st EXCEPT !.trader.rolling_volume = 0]]

\* The same computation as written a second time in auto_compound
\* (lines 149-161).
CompoundRebateBlock(st) ==
    LET trader == st.trader
        product == checked_mul(trader.rolling_volume, st.governance.rebate_rate)
        base_rebate == product \div 1000
        multiplier == calculate_rebate_multiplier(trader.rolling_volume)
        total_rebate == checked_mul(base_rebate, multiplier)
    IN  IF product = None THEN [amount |-> None, st |-> st]
        ELSE IF total_rebate = None THEN [amount |-> None, st |-> st]
        ELSE [amount |-> total_rebate,
              st |-> [st EXCEPT !.trader.rolling_volume = 0]]

\* auto_compound minting the rebate to the trader's token account.
auto_compound_to_trader(st, current_time, cpi_ok) ==
    LET b == CompoundRebateBlock(st)
        m == mint_to(b.st, "trader_token_account", b.amount, cpi_ok)
        staked == checked_add(m.st.trader.staked_amount, b.amount)
    IN  IF b.amount = None THEN Ret("Overflow", b.st, 0)
        ELSE IF m.fail THEN Ret("TokenError", b.st, 0)
        ELSE IF staked = None THEN Ret("Overflow", m.st, 0)
        ELSE Ret("Ok",
                 [m.st EXCEPT !.trader.staked_amount = staked,
                              !.trader.stake_start_time =
                                  IF @ = 0 THEN current_time ELSE @],
                 b.amount)

auto_compound(st, current_time, cpi_ok) ==
    LET b == CompoundRebateBlock(st)
        m == mint_to(b.st, "staking_vault", b.amount, cpi_ok)
        staked == checked_add(m.st.trader.staked_amount, b.amount)
    IN  IF b.amount = None THEN Ret("Overflow", b.st, 0)
        ELSE IF m.fail THEN Ret("TokenError", b.st, 0)
        ELSE IF staked = None THEN Ret("Overflow", m.st, 0)
        ELSE Ret("Ok",
                 [m.st EXCEPT !.trader.staked_amount = staked,
                              !.trader.stake_start_time =
                                  IF @ = 0 THEN current_time ELSE @],
                 b.amount)

create_dao_proposal(st, proposer, proposal_id, new_fee_discount) ==
    Ret("Ok",
        [st EXCEPT !.dao_proposal = [created |-> TRUE,
                                     proposal_id |-> proposal_id,
                                     proposer |-> proposer,
                                     new_fee_discount |-> new_fee_discount,
                                     votes_for |-> 0,
                                     votes_against |-> 0]],
        0)

vote_dao_proposal(st, vote_for) ==
    LET n == IF vote_for THEN checked_add(st.dao_proposal.votes_for, 1)
             ELSE checked_add(st.dao_proposal.votes_against, 1)
    IN  IF n = None THEN Ret("Overflow", st, 0)
        ELSE IF vote_for THEN Ret("Ok", [st EXCEPT !.dao_proposal.votes_for = n], 0)
        ELSE Ret("Ok", [st EXCEPT !.dao_proposal.votes_against = n], 0)

\* execute_dao_proposal letting a tie pass.
execute_dao_proposal_ties(st) ==
    LET proposal == st.dao_proposal
    IN  IF ~(proposal.votes_for >= proposal.votes_against)
        THEN Ret("ProposalRejected", st, 0)
        ELSE Ret("Ok",
                 [st EXCEPT !.global_state.fee_discount = proposal.new_fee_discount],
                 0)

execute_dao_proposal(st) ==
    LET proposal == st.dao_proposal
    IN  IF ~(proposal.votes_for > proposal.votes_against)
        THEN Ret("ProposalRejected", st, 0)
        ELSE Ret("Ok",
                 [st EXCEPT !.global_state.fee_discount = proposal.new_fee_discount],
                 0)

(***************************************************************************)
(* Instruction dispatch.  The handlers work on the deserialised accounts   *)
(* of their Context; the accounts are written back, and the token          *)
(* program's changes kept, only when the handler returns Ok.  An Err (or a *)
(* panic) fails the transaction and nothing it did persists.               *)
(***************************************************************************)
\* A dispatch that writes the accounts back whatever the handler returns.
CommitAlways(res, before, after) == after

Commit(res, before, after) == IF res = "Ok" THEN after ELSE before

\* Runs the handler result r of instruction op on trader t and proposal p.
Dispatch(op, t, p, amount, r) ==
    LET post == Commit(r.res, Accounts(t, p), r.st)
    IN  /\ ops' = ops + 1
        /\ traders' = [traders EXCEPT ![t] = post.trader]
        /\ token' = [token EXCEPT ![t] = post.trader_token_account]
        /\ staking_vault' = post.staking_vault
        /\ mint_supply' = post.hfrt_mint
        /\ governance' = post.governance
        /\ global_state' = post.global_state
        /\ proposals' = [proposals EXCEPT ![p] = post.dao_proposal]
        /\ last' = [op |-> op, trader |-> t, proposal |-> p, amount |-> amount,
                    time |-> now, res |-> r.res, out |-> r.out, pre |-> State,
                    reexecution |-> (op = "execute_dao_proposal" /\ p \in executed),
                    prev |-> [op |-> last.op, trader |-> last.trader,
                              res |-> last.res, out |-> last.out]]
        /\ executed' = IF op = "execute_dao_proposal" /\ r.res = "Ok"
                       THEN executed \cup {p} ELSE executed
        /\ UNCHANGED now

\* The volume window of a trader after an instruction: the accepted trades
\* with their times, the volume the window started from and the amounts
\* accumulated on top of it.
\* first_stake is the time of the first successful stake (or auto-compound)
\* since the stake was last withdrawn in full, -1 when there is none;
\* withheld is the total the trader's unstakes left in the vault.
NoHist == [accepted |-> <<>>, base |-> 0, window |-> <<>>,
           first_stake |-> -1, withheld |-> 0]

HistTrade(h, r, pre, trade_amount, current_time) ==
    IF r.res # "Ok" THEN h
    ELSE IF current_time - pre.last_update >= 24 * 3600
    THEN [h EXCEPT !.accepted = Append(@, [time |-> current_time, amount |-> trade_amount]),
                   !.base = trade_amount, !.window = <<>>]
    ELSE [h EXCEPT !.accepted = Append(@, [time |-> current_time, amount |-> trade_amount]),
                   !.window = Append(@, trade_amount)]

HistClaim(h, r) ==
    IF r.res # "Ok" THEN h ELSE [h EXCEPT !.base = 0, !.window = <<>>]

HistStake(h, r, current_time) ==
    IF r.res # "Ok" \/ h.first_stake # -1 THEN h
    ELSE [h EXCEPT !.first_stake = current_time]

HistUnstake(h, r, pre, amount) ==
    IF r.res # "Ok" THEN h
    ELSE [h EXCEPT !.withheld = @ + (amount - r.out),
                   !.first_stake = IF pre.staked_amount = amount THEN -1 ELSE @]

(***************************************************************************)
(* Actions: the clock and one action per instruction.                      *)
(***************************************************************************)
Tick(times) ==
    /\ \E t \in times : t > now /\ now' = t
    /\ UNCHANGED <<traders, token, staking_vault, mint_supply,
                   governance, global_state, proposals, last, hist, executed, ops>>

Initialize(authority, fee_discount) ==
    /\ ~global_state.initialized
    /\ Dispatch("initialize", "t1", 1, fee_discount,
                initialize(Accounts("t1", 1), authority, fee_discount))
    /\ UNCHANGED hist

InitializeGovernance(authority, rebate_rate, max_fee_discount) ==
    /\ ~governance.initialized
    /\ Dispatch("initialize_governance", "t1", 1, rebate_rate,
                initialize_governance(Accounts("t1", 1), authority,
                                      rebate_rate, max_fee_discount))
    /\ UNCHANGED hist

UpdateGovernance(signer, new_rate) ==
    /\ governance.initialized
    /\ Dispatch("update_rebate_rate", "t1", 1, new_rate,
                update_rebate_rate(Accounts("t1", 1), signer, new_rate))
    /\ UNCHANGED hist

RecordTrade(t, trade_amount) ==
    /\ Len(hist[t].accepted) < MaxTrades
    /\ LET r == record_trade(Accounts(t, 1), trade_amount, now)
       IN  /\ Dispatch("record_trade", t, 1, trade_amount, r)
           /\ hist' = [hist EXCEPT ![t] = HistTrade(@, r, traders[t], trade_amount, now)]

ClaimRebate(t, cpi_ok) ==
    /\ governance.initialized
    /\ LET r == claim_rebate(Accounts(t, 1), cpi_ok)
       IN  /\ Dispatch("claim_rebate", t, 1, 0, r)
           /\ hist' = [hist EXCEPT ![t] = HistClaim(@, r)]

StakeTokens(t, amount, cpi_ok) ==
    /\ LET r == stake_tokens(Accounts(t, 1), amount, now, cpi_ok)
       IN  /\ Dispatch("stake_tokens", t, 1, amount, r)
           /\ hist' = [hist EXCEPT ![t] = HistStake(@, r, now)]

\* checks: whether the program was built with overflow checks.
UnstakeTokens(t, amount, cpi_ok, checks) ==
    /\ LET r == unstake_tokens(Accounts(t, 1), amount, now, cpi_ok, checks)
       IN  /\ Dispatch("unstake_tokens", t, 1, amount, r)
           /\ hist' = [hist EXCEPT ![t] = HistUnstake(@, r, traders[t], amount)]

AutoCompound(t, cpi_ok) ==
    /\ governance.initialized
    /\ LET r == auto_compound(Accounts(t, 1), now, cpi_ok)
       IN  /\ Dispatch("auto_compound", t, 1, 0, r)
           /\ hist' = [hist EXCEPT ![t] = HistStake(HistClaim(@, r), r, now)]

CreateDAOProposal(p, proposer, new_fee_discount) ==
    /\ ~proposals[p].created
    /\ Dispatch("create_dao_proposal", "t1", p, new_fee_discount,
                create_dao_proposal(Accounts("t1", p), proposer, p, new_fee_discount))
    /\ UNCHANGED hist

VoteDAOProposal(p, vote_for) ==
    /\ proposals[p].created
    /\ proposals[p].votes_for + proposals[p].votes_against < MaxVotes
    /\ Dispatch("vote_dao_proposal", "t1", p, 0,
                vote_dao_proposal(Accounts("t1", p), vote_for))
    /\ UNCHANGED hist

ExecuteDAOProposal(p) ==
    /\ proposals[p].created
    /\ global_state.initialized
    /\ Dispatch("execute_dao_proposal", "t1", p, 0,
                execute_dao_proposal(Accounts("t1", p)))
    /\ UNCHANGED hist

(***************************************************************************)
(* Specification: one trader, one proposal, every instruction.             *)
(***************************************************************************)
Init ==
    /\ now = 100000
    /\ traders = [t \in Traders |-> [NoTrader EXCEPT !.owner = t]]
    /\ token = [t \in Traders |-> InitBalance]
    /\ staking_vault = 0
    /\ mint_supply = InitBalance * Cardinality(Traders)
    /\ governance = [initialized |-> FALSE, authority |-> "none",
                     rebate_rate |-> 0, max_fee_discount |-> 0]
    /\ global_state = [initialized |-> FALSE, authority |-> "none",
                       fee_discount |-> 0]
    /\ proposals = [p \in ProposalIds |->
                       [created |-> FALSE, proposal_id |-> 0, proposer |-> "none",
                        new_fee_discount |-> 0, votes_for |-> 0, votes_against |-> 0]]
    /\ last = [op |-> "none", trader |-> "t1", proposal |-> 1, amount |-> 0,
               time |-> 0, res |-> "none", out |-> 0, pre |-> State,
               reexecution |-> FALSE,
               prev |-> [op |-> "none", trader |-> "t1", res |-> "none", out |-> 0]]
    /\ executed = {}
    /\ hist = [t \in Traders |-> NoHist]
    /\ ops = 0

Next ==
    \/ Tick(Times)
    \/ ops < MaxOps /\ \E a \in Principals, d \in U8Vals : Initialize(a, d)
    \/ ops < MaxOps /\ \E a \in Principals, r \in U8Vals, m \in U8Vals :
                           InitializeGovernance(a, r, m)
    \/ ops < MaxOps /\ \E a \in Principals, r \in U8Vals : UpdateGovernance(a, r)
    \/ ops < MaxOps /\ \E x \in Amounts : RecordTrade("t1", x)
    \/ ops < MaxOps /\ \E ok \in BOOLEAN : ClaimRebate("t1", ok)
    \/ ops < MaxOps /\ \E x \in StakeAmounts, ok \in BOOLEAN : StakeTokens("t1", x, ok)
    \/ ops < MaxOps /\ \E x \in StakeAmounts, ok \in BOOLEAN, c \in BOOLEAN :
                           UnstakeTokens("t1", x, ok, c)
    \/ ops < MaxOps /\ \E ok \in BOOLEAN : AutoCompound("t1", ok)
    \/ ops < MaxOps /\ \E d \in U8Vals : CreateDAOProposal(1, "admin", d)
    \/ ops < MaxOps /\ \E v \in BOOLEAN : VoteDAOProposal(1, v)
    \/ ops < MaxOps /\ ExecuteDAOProposal(1)

Spec == Init /\ [][Next]_vars

(***************************************************************************)
(* TradeSpec: the volume window of one trader (record_trade, the rebate    *)
(* instructions) on the fine clock.                                        *)
(***************************************************************************)
TradeNext ==
    \/ Tick(TradeTimes)
    \/ ops < MaxTradeOps /\ \E r \in {10, 50} : InitializeGovernance("admin", r, 50)
    \/ ops < MaxTradeOps /\ \E x \in TradeAmounts : RecordTrade("t1", x)
    \/ ops < MaxTradeOps /\ \E ok \in BOOLEAN : ClaimRebate("t1", ok)
    \/ ops < MaxTradeOps /\ \E ok \in BOOLEAN : AutoCompound("t1", ok)

TradeSpec == Init /\ [][TradeNext]_vars

(***************************************************************************)
(* StakeSpec: one trader staking and unstaking over days.                  *)
(***************************************************************************)
StakeNext ==
    \/ Tick(StakeTimes)
    \/ ops < MaxStakeOps /\ \E x \in StakeAmounts, ok \in BOOLEAN :
                                StakeTokens("t1", x, ok)
    \/ ops < MaxStakeOps /\ \E x \in StakeAmounts, ok \in BOOLEAN, c \in BOOLEAN :
                                UnstakeTokens("t1", x, ok, c)

StakeSpec == Init /\ [][StakeNext]_vars

(***************************************************************************)
(* GovSpec: the fee discount and one proposal, voted on at length.         *)
(***************************************************************************)
GovNext ==
    \/ ops < MaxGovOps /\ \E d \in FeeDiscounts : Initialize("admin", d)
    \/ ops < MaxGovOps /\ \E d \in FeeDiscounts : CreateDAOProposal(1, "admin", d)
    \/ ops < MaxGovOps /\ \E v \in BOOLEAN : VoteDAOProposal(1, v)
    \/ ops < MaxGovOps /\ ExecuteDAOProposal(1)

GovSpec == Init /\ [][GovNext]_vars

(***************************************************************************)
(* ReexecSpec: two proposals, executed in any order and any number of      *)
(* times.                                                                  *)
(***************************************************************************)
ReexecNext ==
    \/ ops < MaxReexecOps /\ Initialize("admin", 0)
    \/ ops < MaxReexecOps /\ \E p \in ProposalIds, d \in {10, 50} :
                                 CreateDAOProposal(p, "admin", d)
    \/ ops < MaxReexecOps /\ \E p \in ProposalIds, v \in BOOLEAN :
                                 VoteDAOProposal(p, v)
    \/ ops < MaxReexecOps /\ \E p \in ProposalIds : ExecuteDAOProposal(p)

ReexecSpec == Init /\ [][ReexecNext]_vars

(***************************************************************************)
(* CustodySpec: two traders sharing the staking vault.                     *)
(***************************************************************************)
CustodyNext ==
    \/ Tick({100000, 704800})
    \/ ops < MaxCustodyOps /\ InitializeGovernance("admin", 50, 50)
    \/ ops < MaxCustodyOps /\ \E t \in Traders : RecordTrade(t, 2000000)
    \/ ops < MaxCustodyOps /\ \E t \in Traders, x \in CustodyAmounts :
                                  StakeTokens(t, x, TRUE)
    \/ ops < MaxCustodyOps /\ \E t \in Traders, x \in CustodyAmounts, c \in BOOLEAN :
                                  UnstakeTokens(t, x, TRUE, c)
    \/ ops < MaxCustodyOps /\ \E t \in Traders : AutoCompound(t, TRUE)

CustodySpec == Init /\ [][CustodyNext]_vars

(***************************************************************************)
(* RateSpec: one trader's trades interleaved with the rebate and staking   *)
(* instructions, on the fine clock.                                        *)
(***************************************************************************)
RateNext ==
    \/ Tick(TradeTimes)
    \/ ops < MaxRateOps /\ InitializeGovernance("admin", 10, 50)
    \/ ops < MaxRateOps /\ \E x \in Amounts : RecordTrade("t1", x)
    \/ ops < MaxRateOps /\ \E ok \in BOOLEAN : ClaimRebate("t1", ok)
    \/ ops < MaxRateOps /\ \E ok \in BOOLEAN : AutoCompound("t1", ok)
    \/ ops < MaxRateOps /\ \E ok \in BOOLEAN : StakeTokens("t1", 1000, ok)
    \/ ops < MaxRateOps /\ \E ok \in BOOLEAN, c \in BOOLEAN :
                               UnstakeTokens("t1", 1000, ok, c)

RateSpec == Init /\ [][RateNext]_vars

(***************************************************************************)
(* Properties.                                                             *)
(***************************************************************************)
\* The trader account of the last instruction, before and after it.
LastPre == last.pre.traders[last.trader]

LastPost == traders[last.trader]

StakingOps == {"stake_tokens", "unstake_tokens", "auto_compound"}

\* C1: after every successful staking instruction (stake, unstake,
\* auto-compound), for every amount including 0, the trader has
\* staked_amount = 0 exactly when stake_start_time = 0.
C1_StakedIffStarted ==
    (last.op \in StakingOps /\ last.res = "Ok")
        => (LastPost.staked_amount = 0 <=> LastPost.stake_start_time = 0)

\* C2: once the governance account exists, rebate_rate <= max_fee_discount,
\* whatever the arguments of initialize_governance and whatever
\* update_rebate_rate calls followed.
C2_RateWithinMax ==
    governance.initialized
        => governance.rebate_rate <= governance.max_fee_discount

C4_OverflowChecked ==
    LET pre == LastPre
        leaves_word ==
            \/ /\ last.op = "record_trade"
               /\ ~is_wash_trade(pre.last_update, last.time, last.amount)
               /\ ~detect_frequent_trades(pre.last_update, last.time)
               /\ last.time - pre.last_update < 24 * 3600
               /\ pre.rolling_volume > U64_MAX - last.amount
            \/ /\ last.op \in {"claim_rebate", "auto_compound"}
               /\ MulOverflows(pre.rolling_volume, last.pre.governance.rebate_rate)
            \/ /\ last.op = "unstake_tokens"
               /\ pre.staked_amount >= last.amount
               /\ MulOverflows(last.amount,
                               penalty_percentage(pre.stake_start_time, last.time))
    IN  leaves_word => (last.res = "Overflow" /\ State = last.pre)

(***************************************************************************)
(* The volume window (TradeSpec).                                          *)
(***************************************************************************)
\* a + b, capped just above the word so that sums of the history stay small.
CapAdd(a, b) == IF a > U64_MAX + 1 - b THEN U64_MAX + 1 ELSE a + b

RECURSIVE SumSeq(_)
SumSeq(q) == IF q = <<>> THEN 0 ELSE CapAdd(q[1], SumSeq(Tail(q)))

\* The checked accumulation of record_trade (lines 68-71) replayed over the
\* amounts q from volume v; None once a step overflows.
RECURSIVE Replay(_, _)
Replay(v, q) ==
    IF q = <<>> \/ v = None THEN v ELSE Replay(checked_add(v, q[1]), Tail(q))

Permuted(q, f) == [i \in 1..Len(q) |-> q[f[i]]]

\* C5: while no trade triggers the 24 h reset and no rebate is claimed, the
\* rolling volume is the exact sum of the accepted amounts on top of the
\* volume at the last reset, and accumulating the same amounts in any other
\* order gives the same volume.
C5_ExactAccumulation ==
    \A t \in Traders :
        LET h == hist[t]
        IN  /\ traders[t].rolling_volume = CapAdd(h.base, SumSeq(h.window))
            /\ \A f \in Permutations(1..Len(h.window)) :
                   Replay(h.base, Permuted(h.window, f)) = traders[t].rolling_volume

\* C5 witness: two different amounts accumulated on a nonzero base volume.
C5_Witness ==
    LET h == hist["t1"]
    IN  /\ h.base > 0
        /\ Len(h.window) >= 2
        /\ h.window[1] # h.window[2]
        /\ last.op = "record_trade" /\ last.res = "Ok"

\* Sum of the amounts of the accepted trades q made at or after time from.
RECURSIVE SumSince(_, _)
SumSince(q, from) ==
    IF q = <<>> THEN 0
    ELSE CapAdd(IF q[1].time >= from THEN q[1].amount ELSE 0,
                SumSince(Tail(q), from))

\* Index of the first trade of the latest run of accepted trades in which
\* each trade came less than 24 h after the one before it.
RECURSIVE RunStart(_, _)
RunStart(q, i) ==
    IF i <= 1 THEN i
    ELSE IF q[i].time - q[i - 1].time >= 24 * 3600 THEN i
    ELSE RunStart(q, i - 1)

LastGap == last.time - LastPre.last_update

\* C7: record_trade fails with WashTrade exactly when trade_amount >
\* 1_000_000 and now - last_update < 10 (last_update as before the call),
\* also when the 5 s rule is violated too; 2_000_000 after 3 s is rejected
\* with WashTrade and after 11 s it is accepted.
C7_WashTrade ==
    last.op = "record_trade" =>
        /\ last.res = "WashTrade" <=> (last.amount > 1000000 /\ LastGap < 10)
        /\ (last.amount = 2000000 /\ LastGap = 3) => last.res = "WashTrade"
        /\ (last.amount = 2000000 /\ LastGap = 11
            /\ LastPre.rolling_volume <= U64_MAX - 2000000) => last.res = "Ok"

\* C7 witness: 2_000_000 three seconds after the previous trade.
C7_Witness ==
    /\ last.op = "record_trade" /\ last.res = "WashTrade"
    /\ last.amount = 2000000 /\ LastGap = 3
    /\ LastPre.last_update > 0

\* C8, as stated: every trade with now - last_update < 5 is rejected with
\* FrequentTrades, whatever its size.
C8_FrequentWhateverSize ==
    (last.op = "record_trade" /\ LastGap < 5) => last.res = "FrequentTrades"

\* C8, amended: every trade with now - last_update < 5 is rejected, with
\* FrequentTrades when trade_amount <= 1_000_000 and with WashTrade when it
\* is larger; no such trade is accepted, FrequentTrades is reported only for
\* gaps below 5, and 500 after 4 s is rejected with FrequentTrades.
C8_FrequentTrades ==
    last.op = "record_trade" =>
        /\ LastGap < 5 =>
               last.res = (IF last.amount > 1000000 THEN "WashTrade"
                           ELSE "FrequentTrades")
        /\ last.res = "FrequentTrades" => LastGap < 5
        /\ last.res = "Ok" => LastGap >= 5
        /\ (last.amount = 500 /\ LastGap = 4) => last.res = "FrequentTrades"

\* C8 witness: 500 four seconds after the previous trade.
C8_Witness ==
    /\ last.op = "record_trade" /\ last.res = "FrequentTrades"
    /\ last.amount = 500 /\ LastGap = 4
    /\ LastPre.last_update > 0

Tier(v) ==
    CASE v >= 100000000 -> 5
      [] v >= 50000000 /\ v < 100000000 -> 3
      [] v >= 10000000 /\ v < 50000000 -> 2
      [] OTHER -> 1

\* C10: the rebate of claim_rebate and auto_compound is
\* floor(rolling_volume * rebate_rate / 1000) * multiplier, from the volume
\* held before the call, and that amount is what is minted; a volume of
\* 75_000_000 at rate 10 gives 2_250_000.
C10_RebateAmount ==
    (last.op \in {"claim_rebate", "auto_compound"} /\ last.res = "Ok") =>
        LET v == LastPre.rolling_volume
            rate == last.pre.governance.rebate_rate
        IN  /\ last.out = ((v * rate) \div 1000) * Tier(v)
            /\ mint_supply = last.pre.mint_supply + last.out
            /\ (v = 75000000 /\ rate = 10) => last.out = 2250000

\* C10 witness: the rebate of 75_000_000 at rate 10.
C10_Witness ==
    /\ last.op = "claim_rebate" /\ last.res = "Ok"
    /\ LastPre.rolling_volume = 75000000
    /\ last.pre.governance.rebate_rate = 10
    /\ last.out = 2250000

(***************************************************************************)
(* Rebates claimed twice.                                                  *)
(***************************************************************************)
RebateOps == {"claim_rebate", "auto_compound"}

\* The last two instructions were rebate instructions of the same trader.
TwoRebates ==
    /\ last.op \in RebateOps /\ last.prev.op \in RebateOps
    /\ last.prev.trader = last.trader

\* C11, as stated: a rebate instruction always leaves rolling_volume = 0, and
\* of two rebate instructions in immediate succession the first yields a
\* nonzero amount and the second exactly zero.
C11_AlwaysCleared ==
    /\ last.op \in RebateOps => LastPost.rolling_volume = 0
    /\ TwoRebates => (last.prev.out # 0 /\ last.out = 0)

\* C11, amended: a successful rebate instruction leaves rolling_volume = 0
\* and a failed one leaves it as it was; of two successful rebate
\* instructions in immediate succession the second yields exactly zero; a
\* successful one yields a nonzero amount exactly when
\* rolling_volume * rebate_rate >= 1000.
C11_ClearedOnSuccess ==
    last.op \in RebateOps =>
        /\ last.res = "Ok" =>
               /\ LastPost.rolling_volume = 0
               /\ last.out # 0 <=>
                      LastPre.rolling_volume * last.pre.governance.rebate_rate >= 1000
        /\ last.res # "Ok" => LastPost.rolling_volume = LastPre.rolling_volume
        /\ (TwoRebates /\ last.res = "Ok" /\ last.prev.res = "Ok") =>
               (LastPre.rolling_volume = 0 /\ last.out = 0)

\* C11 witness: a second rebate right after one that paid a nonzero amount.
C11_Witness ==
    /\ TwoRebates
    /\ last.res = "Ok" /\ last.prev.res = "Ok"
    /\ last.prev.out > 0 /\ last.out = 0

(***************************************************************************)
(* Staking.                                                                *)
(***************************************************************************)
\* floor(amount * pct / 100), without forming amount * pct.
PercentOf(amount, pct) ==
    (amount \div 100) * pct + ((amount % 100) * pct) \div 100

\* The penalty rate of the claim: 10 under 7 days, 5 under 14 days, else 2.
TierPercent(duration) ==
    IF duration < 604800 THEN 10 ELSE IF duration < 1209600 THEN 5 ELSE 2

\* C12: a successful unstake pays amount - floor(amount * pct / 100), with
\* pct 10 when staked for less than 7 days, 5 when less than 14 days and 2
\* otherwise.
C12_UnstakePayout ==
    (last.op = "unstake_tokens" /\ last.res = "Ok") =>
        last.out = last.amount
                     - PercentOf(last.amount,
                                 TierPercent(last.time - LastPre.stake_start_time))

\* C13: an unstake of more than the staked amount fails with
\* InsufficientStake (and only such an unstake does) and changes nothing; an
\* unstake of at most the staked amount either fails in the penalty
\* arithmetic or the token transfer and changes nothing, or succeeds and
\* lowers staked_amount by exactly amount, and stake_start_time becomes 0
\* exactly when the result is 0 and is otherwise kept.
C13_Unstake ==
    last.op = "unstake_tokens" =>
        /\ last.amount > LastPre.staked_amount <=> last.res = "InsufficientStake"
        /\ last.res \in {"InsufficientStake", "Panic", "TokenError", "Ok"}
        /\ last.res # "Ok" => State = last.pre
        /\ last.res = "Ok" =>
               /\ LastPost.staked_amount = LastPre.staked_amount - last.amount
               /\ LastPost.stake_start_time =
                      IF LastPost.staked_amount = 0 THEN 0
                      ELSE LastPre.stake_start_time
               /\ LastPost.stake_start_time = 0 <=> LastPost.staked_amount = 0

\* C13 witness: a partial unstake, which keeps a nonzero stake_start_time.
C13_Witness ==
    /\ last.op = "unstake_tokens" /\ last.res = "Ok"
    /\ last.amount > 0
    /\ LastPost.staked_amount > 0
    /\ LastPost.stake_start_time = LastPre.stake_start_time
    /\ LastPre.stake_start_time < last.time

\* C14: a successful stake raises staked_amount by exactly amount, sets
\* stake_start_time to the clock only when it was 0, and leaves
\* rolling_volume and last_update alone; so stake_start_time is always the
\* time of the first stake since the trader last had nothing staked.
C14_Stake ==
    /\ (last.op = "stake_tokens" /\ last.res = "Ok") =>
           /\ LastPost.staked_amount = LastPre.staked_amount + last.amount
           /\ LastPost.stake_start_time =
                  IF LastPre.stake_start_time = 0 THEN last.time
                  ELSE LastPre.stake_start_time
           /\ LastPost.rolling_volume = LastPre.rolling_volume
           /\ LastPost.last_update = LastPre.last_update
    /\ \A t \in Traders :
           traders[t].stake_start_time =
               IF hist[t].first_stake = -1 THEN 0 ELSE hist[t].first_stake

\* C14 witness: a later stake on top of an earlier one keeps the first time.
C14_Witness ==
    /\ last.op = "stake_tokens" /\ last.res = "Ok" /\ last.amount > 0
    /\ LastPre.staked_amount > 0
    /\ LastPre.stake_start_time < last.time
    /\ LastPost.stake_start_time = hist[last.trader].first_stake

(***************************************************************************)
(* Governance.                                                             *)
(***************************************************************************)
\* The proposal of the last instruction, before and after it.
LastProposalPre == last.pre.proposals[last.proposal]

LastProposalPost == proposals[last.proposal]

\* C15: execute_dao_proposal succeeds exactly when votes_for > votes_against
\* at the call and then fee_discount is the proposal's new_fee_discount;
\* otherwise, ties included, it fails with ProposalRejected and fee_discount
\* is unchanged; the vote counters are unchanged either way.
C15_Execute ==
    last.op = "execute_dao_proposal" =>
        /\ last.res = "Ok" <=>
               LastProposalPre.votes_for > LastProposalPre.votes_against
        /\ last.res = "Ok" =>
               global_state.fee_discount = LastProposalPre.new_fee_discount
        /\ last.res # "Ok" =>
               /\ last.res = "ProposalRejected"
               /\ global_state.fee_discount = last.pre.global_state.fee_discount
        /\ LastProposalPost.votes_for = LastProposalPre.votes_for
        /\ LastProposalPost.votes_against = LastProposalPre.votes_against

\* C15 witness: a tie of 5 against 5 rejected, on a proposal that would have
\* changed the fee discount.
C15_Witness ==
    /\ last.op = "execute_dao_proposal" /\ last.res = "ProposalRejected"
    /\ LastProposalPost.votes_for = 5 /\ LastProposalPost.votes_against = 5
    /\ LastProposalPost.new_fee_discount # global_state.fee_discount

\* C17: a repeated successful execution of an already executed proposal
\* leaves fee_discount equal to what it was immediately before the call.
C17_ReexecutionHarmless ==
    (last.op = "execute_dao_proposal" /\ last.res = "Ok" /\ last.reexecution)
        => global_state.fee_discount = last.pre.global_state.fee_discount

\* C18: fee_discount is in the range 0..100 in every reachable state.
C18_FeeDiscountRange ==
    global_state.fee_discount \in 0..100

(***************************************************************************)
(* Counters from one state to the next.                                    *)
(***************************************************************************)
VotesKept ==
    \A p \in ProposalIds :
        /\ proposals'[p].votes_for >= proposals[p].votes_for
        /\ proposals'[p].votes_against >= proposals[p].votes_against

\* A step in which rolling_volume, staked_amount, votes_for and
\* votes_against do not decrease, except rolling_volume to 0 in a rebate
\* instruction and staked_amount to 0 in an unstake.
ResetToZeroOnly ==
    /\ \A t \in Traders :
           /\ traders'[t].rolling_volume < traders[t].rolling_volume =>
                  (last'.op \in RebateOps /\ traders'[t].rolling_volume = 0)
           /\ traders'[t].staked_amount < traders[t].staked_amount =>
                  (last'.op = "unstake_tokens" /\ traders'[t].staked_amount = 0)
    /\ VotesKept

\* C16, as stated: no step lowers rolling_volume, staked_amount, votes_for
\* or votes_against, except that rolling_volume becomes 0 on a rebate claim
\* and staked_amount becomes 0 on a full unstake.
C16_NeverDecrease == [][ResetToZeroOnly]_vars

\* A step in which rolling_volume is lowered only by a successful rebate
\* instruction (to 0) or by a trade recorded 24 hours or more after
\* last_update (to the amount of that trade), and staked_amount only by a
\* successful unstake (by the amount unstaked).
LoweredByResetOrUnstake ==
    /\ \A t \in Traders :
           /\ traders'[t].rolling_volume < traders[t].rolling_volume =>
                  /\ last'.trader = t /\ last'.res = "Ok"
                  /\ \/ last'.op \in RebateOps /\ traders'[t].rolling_volume = 0
                     \/ /\ last'.op = "record_trade"
                        /\ last'.time - traders[t].last_update >= 86400
                        /\ traders'[t].rolling_volume = last'.amount
           /\ traders'[t].staked_amount < traders[t].staked_amount =>
                  /\ last'.trader = t /\ last'.res = "Ok"
                  /\ last'.op = "unstake_tokens"
                  /\ traders'[t].staked_amount =
                         traders[t].staked_amount - last'.amount
    /\ VotesKept

\* C16, amended: votes_for and votes_against never decrease; rolling_volume
\* decreases only to 0 on a rebate claim or to the trade's amount when a
\* trade restarts the window; staked_amount decreases only on an unstake, by
\* exactly the amount unstaked (to 0 on a full unstake, to the remainder on
\* a partial one).
C16_DecreaseOnlyByReset == [][LoweredByResetOrUnstake]_vars

\* C16 witness: a trade that restarted the window with a smaller volume.
C16_Witness ==
    /\ last.op = "record_trade" /\ last.res = "Ok"
    /\ LastPost.rolling_volume < LastPre.rolling_volume
    /\ LastPost.rolling_volume > 0

(***************************************************************************)
(* claim_rebate against auto_compound.                                     *)
(***************************************************************************)
\* A step that is a rebate instruction: on the accounts it started from,
\* claim_rebate and auto_compound compute the same amount (or both
\* overflow) and both zero rolling_volume; a successful auto_compound puts
\* the amount in the staking vault, adds it to staked_amount and starts the
\* staking clock only if it was 0, while a successful claim_rebate puts the
\* amount in the trader's token account and leaves staked_amount and
\* stake_start_time alone.
RebateStep ==
    (ops' # ops /\ last'.op \in RebateOps) =>
        LET t == last'.trader
            acc == Accounts(t, 1)
            c == RebateBlock(acc)
            a == CompoundRebateBlock(acc)
        IN  /\ c.amount = a.amount
            /\ c.st.trader.rolling_volume = a.st.trader.rolling_volume
            /\ last'.res = "Ok" =>
                   /\ last'.out = c.amount /\ last'.out = a.amount
                   /\ traders'[t].rolling_volume = 0
                   /\ mint_supply' = mint_supply + last'.out
            /\ (last'.res = "Ok" /\ last'.op = "auto_compound") =>
                   /\ staking_vault' = staking_vault + last'.out
                   /\ token' = token
                   /\ traders'[t].staked_amount =
                          traders[t].staked_amount + last'.out
                   /\ traders'[t].stake_start_time =
                          IF traders[t].stake_start_time = 0 THEN now
                          ELSE traders[t].stake_start_time
            /\ (last'.res = "Ok" /\ last'.op = "claim_rebate") =>
                   /\ token'[t] = token[t] + last'.out
                   /\ staking_vault' = staking_vault
                   /\ traders'[t].staked_amount = traders[t].staked_amount
                   /\ traders'[t].stake_start_time = traders[t].stake_start_time

\* C19: auto_compound and claim_rebate compute the same rebate from the same
\* trader and rate and both zero rolling_volume; they differ only in where
\* the amount goes (vault and staked_amount, with the staking clock started
\* only if it was 0, against the trader's token account with the stake
\* untouched).
C19_SameRebate == [][RebateStep]_vars

\* C19 witness: an auto_compound, on a stake whose clock was already
\* running, right after one that paid a nonzero amount.
C19_Witness ==
    /\ last.op = "auto_compound" /\ last.res = "Ok"
    /\ last.prev.op = "auto_compound" /\ last.prev.res = "Ok"
    /\ last.prev.out > 0
    /\ LastPre.stake_start_time # 0
    /\ LastPre.stake_start_time < last.time
    /\ LastPost.stake_start_time = LastPre.stake_start_time

(***************************************************************************)
(* Custody.                                                                *)
(***************************************************************************)
RECURSIVE SumStaked(_)
SumStaked(S) ==
    IF S = {} THEN 0
    ELSE LET t == CHOOSE x \in S : TRUE
         IN  traders[t].staked_amount + SumStaked(S \ {t})

RECURSIVE SumWithheld(_)
SumWithheld(S) ==
    IF S = {} THEN 0
    ELSE LET t == CHOOSE x \in S : TRUE
         IN  hist[t].withheld + SumWithheld(S \ {t})

\* C20: from an empty vault and nothing staked, after any interleaving of
\* stake, unstake and auto-compound by the traders, the staking vault holds
\* the sum of all staked_amount plus the penalties withheld by unstake, and
\* so at least the sum of all staked_amount.
C20_CustodySolvency ==
    /\ staking_vault = SumStaked(Traders) + SumWithheld(Traders)
    /\ staking_vault >= SumStaked(Traders)

\* C20 witness: one trader staking by auto-compound alone, the other
\* staking and then unstaking a part, with a penalty withheld.
C20_Witness ==
    /\ last.op = "unstake_tokens" /\ last.res = "Ok"
    /\ last.out < last.amount
    /\ \A t \in Traders : traders[t].staked_amount > 0
    /\ \E t \in Traders : token[t] = InitBalance
    /\ SumWithheld(Traders) > 0

(***************************************************************************)
(* The rate limit over a trader's history.                                 *)
(***************************************************************************)
\* Seconds between the i-th accepted trade of q and the one before it.
GapBefore(q, i) == q[i].time - q[i - 1].time

\* C21: with a non-decreasing clock, any two consecutively accepted trades
\* of a trader are at least 5 seconds apart, and a trade above 1_000_000 is
\* accepted only at least 10 seconds after the trader's previous accepted
\* trade; last_update is always the time of the trader's latest accepted
\* trade (0 before the first), and no instruction other than an accepted
\* record_trade changes it.
C21_RateLimit ==
    /\ \A t \in Traders :
           LET q == hist[t].accepted
           IN  /\ \A i \in 2..Len(q) :
                      /\ GapBefore(q, i) >= 5
                      /\ q[i].amount > 1000000 => GapBefore(q, i) >= 10
               /\ traders[t].last_update =
                      IF q = <<>> THEN 0 ELSE q[Len(q)].time
               /\ traders[t].last_update <= now
    /\ ~(last.op = "record_trade" /\ last.res = "Ok") =>
           \A t \in Traders :
               traders[t].last_update = last.pre.traders[t].last_update

\* C21 witness: a trade accepted exactly 5 seconds after the previous
\* accepted trade, a successful rebate or staking instruction having been
\* issued in between.
C21_Witness ==
    /\ last.op = "record_trade" /\ last.res = "Ok"
    /\ last.prev.op \in RebateOps \cup StakingOps /\ last.prev.res = "Ok"
    /\ Len(hist[last.trader].accepted) >= 2
    /\ GapBefore(hist[last.trader].accepted, Len(hist[last.trader].accepted)) = 5

====
